---------------------------- MODULE Spec2Model ----------------------------
(***************************************************************************)
(* Model of src/ordering_app.py: the Mister TAMO order form.               *)
(*                                                                         *)
(*   - the menu (build_menu) and the order draft that main() rebuilds from *)
(*     the quantity inputs on every run (order_quantities);                *)
(*   - the ledger file ORDERS_FILE, written by save_order_to_csv and by    *)
(*     the delete branch of main(), read by load_orders_dataframe;         *)
(*   - the CSV conversion done by DataFrame.to_csv and pandas.read_csv     *)
(*     with their default options;                                         *)
(*   - several browser sessions running main() against the one file.       *)
(*                                                                         *)
(* Money is counted in thousandths of a euro (mills), so that round(x, 2)  *)
(* is a real operation.  Text that goes through strip() or through the     *)
(* CSV file is a sequence of one-character strings.                        *)
(***************************************************************************)
EXTENDS Integers, Sequences, FiniteSets, TLC

\* ------------------------------------------------------------------ bounds

\* Largest quantity typed into one quantity input.
MaxQty == 2

\* Number of "Invia ordine" clicks that reach save_order_to_csv.
MaxSubmits == 2

\* Lines that the file object of to_csv holds before it flushes them to the
\* file (the io buffer, counted in lines instead of bytes).
BufferLines == 2

\* ------------------------------------------------------------------- text

Digits == <<"0", "1", "2", "3", "4", "5", "6", "7", "8", "9">>

IsDigit(c) == \E d \in 1..10 : Digits[d] = c

DigitVal(c) == (CHOOSE d \in 1..10 : Digits[d] = c) - 1

IsSpace(c) == c = " "

RECURSIVE LStrip(_)
LStrip(s) ==
    IF s = <<>> THEN <<>>
    ELSE IF IsSpace(Head(s)) THEN LStrip(Tail(s)) ELSE s

RECURSIVE RStrip(_)
RStrip(s) ==
    IF s = <<>> THEN <<>>
    ELSE IF IsSpace(s[Len(s)]) THEN RStrip(SubSeq(s, 1, Len(s) - 1)) ELSE s

\* A test "if not name:" in place of "if not name.strip():".
Strip_Nothing(s) == s

\* str.strip(): leading and trailing white space removed.
Strip(s) == RStrip(LStrip(s))

\* ------------------------------------------------------------------- menu

\* A slice of the menu, in declaration order: the first two items of
\* "Sweet brunch", Cappuccino from "Caffetteria", and the two items of
\* "Dolci - pancakes" that repeat a name of "Sweet brunch" (one with the
\* same price, one with another price).
build_menu ==
    << [category |-> "Sweet brunch (Pancakes e Waffles)",
        items |-> << [item |-> "Pancakes Nutella e Banana", price |-> 7000],
                     [item |-> "Pancakes Pistacchio", price |-> 7000] >>],
       [category |-> "Caffetteria",
        items |-> << [item |-> "Cappuccino", price |-> 2000] >>],
       [category |-> "Dolci - pancakes",
        items |-> << [item |-> "Pancakes Nutella e Banana", price |-> 7000],
                     [item |-> "Pancakes Pistacchio", price |-> 8000] >>] >>

RECURSIVE FlattenFrom(_, _)
FlattenFrom(menu, c) ==
    IF c > Len(menu) THEN <<>>
    ELSE [i \in 1..Len(menu[c].items) |->
             [category |-> menu[c].category,
              item |-> menu[c].items[i].item,
              price |-> menu[c].items[i].price]]
         \o FlattenFrom(menu, c + 1)

\* The quantity inputs in the order the two loops of main() create them:
\* category by category, item by item.
QtyInputs == FlattenFrom(build_menu, 1)

NumInputs == Len(QtyInputs)

\* The values of all quantity inputs of one session: input number |-> qty.
FormStates == [1..NumInputs -> 0..MaxQty]

\* ------------------------------------------------------------------ draft

KeyIndex(draft, item, price) ==
    IF \E k \in 1..Len(draft) : draft[k].item = item /\ draft[k].price = price
    THEN CHOOSE k \in 1..Len(draft) :
             draft[k].item = item /\ draft[k].price = price
    ELSE 0

\* "=" in place of "+=" in the loop body.
AddQty_Overwrite(draft, item, price, qty) ==
    IF qty = 0 THEN draft
    ELSE LET k == KeyIndex(draft, item, price) IN
         IF k = 0
         THEN Append(draft, [item |-> item, price |-> price, qty |-> qty])
         ELSE [draft EXCEPT ![k].qty = qty]

\* One pass of the inner loop body: if qty: order_quantities[key] += int(qty).
\* The dict keeps its keys in insertion order.
AddQty(draft, item, price, qty) ==
    IF qty = 0 THEN draft
    ELSE LET k == KeyIndex(draft, item, price) IN
         IF k = 0
         THEN Append(draft, [item |-> item, price |-> price, qty |-> qty])
         ELSE [draft EXCEPT ![k].qty = @ + qty]

RECURSIVE BuildFrom(_, _, _)
BuildFrom(form, n, draft) ==
    IF n > NumInputs THEN draft
    ELSE BuildFrom(form, n + 1,
                   AddQty(draft, QtyInputs[n].item, QtyInputs[n].price, form[n]))

\* order_quantities as main() builds it from the quantity inputs.
BuildDraft(form) == BuildFrom(form, 1, <<>>)

\* ------------------------------------------------------------- CSV values

\* A cell of the "name" column of a DataFrame: a string, a number (int64 when
\* f is FALSE, float64 when f is TRUE) or NaN.
Str(s) == [t |-> "str", s |-> s, n |-> 0, f |-> FALSE]

Num(n, f) == [t |-> "num", s |-> <<>>, n |-> n, f |-> f]

NaN == [t |-> "nan", s |-> <<>>, n |-> 0, f |-> TRUE]

RECURSIVE FormatInt(_)
FormatInt(n) ==
    IF n < 10 THEN <<Digits[n + 1]>>
    ELSE FormatInt(n \div 10) \o <<Digits[(n % 10) + 1]>>

\* What to_csv writes for a cell: the string itself, the digits of a
\* number, nothing for NaN (na_rep = '').
FormatValue(v) ==
    CASE v.t = "str" -> v.s
      [] v.t = "num" -> FormatInt(v.n) \o (IF v.f THEN <<".", "0">> ELSE <<>>)
      [] OTHER -> <<>>

\* A cell of the "name" column as format_option and st.dataframe show it.
Shown(v) ==
    CASE v.t = "str" -> v.s
      [] v.t = "num" -> FormatInt(v.n) \o (IF v.f THEN <<".", "0">> ELSE <<>>)
      [] OTHER -> <<"n", "a", "n">>

\* Fields that read_csv takes for a missing value (keep_default_na = True);
\* a part of the default list.
NAValues ==
    { <<>>, <<"N", "A">>, <<"N", "/", "A">>, <<"N", "a", "N">>,
      <<"n", "a", "n">>, <<"n", "u", "l", "l">>, <<"N", "U", "L", "L">> }

IsIntText(t) == t # <<>> /\ \A i \in 1..Len(t) : IsDigit(t[i])

IsFloatText(t) ==
    /\ Len(t) >= 3
    /\ t[Len(t) - 1] = "." /\ t[Len(t)] = "0"
    /\ IsIntText(SubSeq(t, 1, Len(t) - 2))

IsNumText(t) == IsIntText(t) \/ IsFloatText(t)

RECURSIVE ParseInt(_)
ParseInt(t) ==
    IF t = <<>> THEN 0
    ELSE 10 * ParseInt(SubSeq(t, 1, Len(t) - 1)) + DigitVal(t[Len(t)])

ParseNum(t) ==
    IF IsFloatText(t) THEN ParseInt(SubSeq(t, 1, Len(t) - 2)) ELSE ParseInt(t)

\* The type inference of read_csv on one column of fields: missing values
\* become NaN; if every other field is a number the column is numeric
\* (float64 as soon as a field is missing or written as a float), else the
\* fields stay strings.
InferColumn(texts) ==
    LET present == {i \in 1..Len(texts) : texts[i] \notin NAValues}
        numeric == present # {} /\ \A i \in present : IsNumText(texts[i])
        float   == \E i \in 1..Len(texts) :
                       texts[i] \in NAValues \/ IsFloatText(texts[i])
    IN [i \in 1..Len(texts) |->
           IF texts[i] \in NAValues THEN NaN
           ELSE IF numeric THEN Num(ParseNum(texts[i]), float)
           ELSE Str(texts[i])]

\* -------------------------------------------------------------- CSV file

\* The lines of the file.  A hole left by a write beyond the end of the file
\* reads as a line of NUL bytes.
Header ==
    [kind |-> "header", name |-> <<>>, item |-> "", price |-> 0,
     quantity |-> 0, line_total |-> 0, timestamp |-> 0]

Nul ==
    [kind |-> "nul", name |-> <<>>, item |-> "", price |-> 0,
     quantity |-> 0, line_total |-> 0, timestamp |-> 0]

CsvLine(row) ==
    [kind |-> "row", name |-> FormatValue(row.name), item |-> row.item,
     price |-> row.price, quantity |-> row.quantity,
     line_total |-> row.line_total, timestamp |-> row.timestamp]

\* DataFrame.to_csv(ORDERS_FILE, index=False): the header line, then one
\* line per row.
ToCsv(rows) == <<Header>> \o [i \in 1..Len(rows) |-> CsvLine(rows[i])]

\* What a file that is not a table of the ledger is rewritten as.
Garbage == <<Nul>>

IsTable(lines) ==
    /\ lines # <<>>
    /\ lines[1] = Header
    /\ \A i \in 2..Len(lines) : lines[i].kind = "row"

ParseRows(lines) ==
    LET body  == Tail(lines)
        names == InferColumn([i \in 1..Len(body) |-> body[i].name])
    IN [i \in 1..Len(body) |->
           [name |-> names[i], item |-> body[i].item, price |-> body[i].price,
            quantity |-> body[i].quantity, line_total |-> body[i].line_total,
            timestamp |-> body[i].timestamp]]

\* pd.read_csv(ORDERS_FILE) on the lines now in the file: the outcomes it
\* can have.  No line at all: EmptyDataError.  A table: its rows.  Lines of
\* NUL bytes: a parser error, or a frame that has not the ledger's columns.
read_csv(lines) ==
    IF lines = <<>> THEN {[status |-> "raise", rows |-> <<>>]}
    ELSE IF IsTable(lines) THEN {[status |-> "ok", rows |-> ParseRows(lines)]}
    ELSE {[status |-> "raise", rows |-> <<>>],
          [status |-> "garbled", rows |-> <<>>]}

\* load_orders_dataframe(): None when the file does not exist or read_csv
\* raises.
load_orders_dataframe(f) ==
    IF ~f.exists THEN {[status |-> "None", rows |-> <<>>]}
    ELSE {IF r.status = "raise" THEN [status |-> "None", rows |-> <<>>] ELSE r :
             r \in read_csv(f.lines)}

\* A write of chunk at position off of the file, as the operating system
\* does it: the lines there are overwritten, the file grows if needed.
WriteAt(lines, off, chunk) ==
    LET end == off + Len(chunk)
        n   == IF end > Len(lines) THEN end ELSE Len(lines)
    IN [i \in 1..n |->
           IF i > off /\ i <= end THEN chunk[i - off]
           ELSE IF i <= Len(lines) THEN lines[i]
           ELSE Nul]

\* ----------------------------------------------------------- order lines

\* round(x, 2) on an amount in mills: to the nearest cent, a tie to even.
Round2(x) ==
    LET q == x \div 10
        r == x % 10
    IN IF r > 5 \/ (r = 5 /\ q % 2 = 1) THEN (q + 1) * 10 ELSE q * 10

\* The line total of the draft summary, f"{line_total:.2f}": the product shown
\* with two decimals.
Format2f(x) ==
    LET q == x \div 10
        r == x % 10
    IN IF r > 5 \/ (r = 5 /\ q % 2 = 1) THEN (q + 1) * 10 ELSE q * 10

\* The lines of the draft summary main() shows: item, quantity, line total.
RECURSIVE SummaryFrom(_, _)
SummaryFrom(draft, k) ==
    IF k > Len(draft) THEN <<>>
    ELSE (IF draft[k].qty <= 0 THEN <<>>
          ELSE << [item |-> draft[k].item, price |-> draft[k].price,
                   quantity |-> draft[k].qty,
                   line_total |-> Format2f(draft[k].price * draft[k].qty)] >>)
         \o SummaryFrom(draft, k + 1)

SummaryLines(draft) == SummaryFrom(draft, 1)

RECURSIVE NewRowsFrom(_, _, _, _)
NewRowsFrom(name, draft, timestamp, k) ==
    IF k > Len(draft) THEN <<>>
    ELSE (IF draft[k].qty <= 0 THEN <<>>
          ELSE << [name |-> Str(name), item |-> draft[k].item,
                   price |-> draft[k].price, quantity |-> draft[k].qty,
                   line_total |-> Round2(draft[k].price * draft[k].qty),
                   timestamp |-> timestamp] >>)
         \o NewRowsFrom(name, draft, timestamp, k + 1)

\* The rows save_order_to_csv builds from the draft.
NewRows(name, draft, timestamp) == NewRowsFrom(name, draft, timestamp, 1)

\* pd.concat([existing, new_df], ignore_index=True)
Concat(existing, new_df) == existing \o new_df

\* df_orders.drop(selected).reset_index(drop=True): the row labelled
\* selected removed; KeyError when no row has that label.
Drop(rows, selected) ==
    IF selected \in 0..(Len(rows) - 1)
    THEN [err |-> FALSE,
          rows |-> SubSeq(rows, 1, selected)
                   \o SubSeq(rows, selected + 2, Len(rows))]
    ELSE [err |-> TRUE, rows |-> rows]

\* ---------------------------------------------------------- aggregation

\* The item names of the menu slice in the order groupby("item") lists its
\* groups: sorted by name (sort = True).
SortedItems ==
    <<"Cappuccino", "Pancakes Nutella e Banana", "Pancakes Pistacchio">>

RECURSIVE SumField(_, _, _)
SumField(rows, item, quantity) ==
    IF rows = <<>> THEN 0
    ELSE (IF Head(rows).item # item THEN 0
          ELSE IF quantity THEN Head(rows).quantity ELSE Head(rows).line_total)
         + SumField(Tail(rows), item, quantity)

RECURSIVE GroupFrom(_, _)
GroupFrom(rows, k) ==
    IF k > Len(SortedItems) THEN <<>>
    ELSE (IF \E i \in 1..Len(rows) : rows[i].item = SortedItems[k]
          THEN << [item |-> SortedItems[k],
                   quantita |-> SumField(rows, SortedItems[k], TRUE),
                   totale |-> SumField(rows, SortedItems[k], FALSE)] >>
          ELSE <<>>)
         \o GroupFrom(rows, k + 1)

RECURSIVE FirstSeenFrom(_, _)
FirstSeenFrom(rows, k) ==
    IF k > Len(rows) THEN <<>>
    ELSE (IF \E i \in 1..(k - 1) : rows[i].item = rows[k].item THEN <<>>
          ELSE << [item |-> rows[k].item,
                   quantita |-> SumField(rows, rows[k].item, TRUE),
                   totale |-> SumField(rows, rows[k].item, FALSE)] >>)
         \o FirstSeenFrom(rows, k + 1)

\* groupby("item", sort=False) in place of groupby("item").
Aggregate_FirstSeen(rows) == FirstSeenFrom(rows, 1)

\* df_orders.groupby("item").agg(quantita = sum of quantity,
\* totale = sum of line_total).reset_index()
Aggregate(rows) == GroupFrom(rows, 1)

RECURSIVE SumTotale(_)
SumTotale(agg) ==
    IF agg = <<>> THEN 0 ELSE Head(agg).totale + SumTotale(Tail(agg))

\* ------------------------------------------------------------------ state

\* The browser sessions that run main() against the one ORDERS_FILE.
Sessions == {1, 2}

VARIABLES
    widgets,            \* each session's quantity inputs
    name,               \* each session's name input
    order_quantities,   \* the draft main() built on the session's last run
    lastSet,            \* history: per draft key, the quantity last set
    file,               \* ORDERS_FILE: whether it exists, and its lines
    now,                \* the clock read by datetime.datetime.now()
    pc,                 \* where each session's run of main() stands
    op,                 \* the operation each session ran last
    rows,               \* save_order_to_csv: the rows of this submission
    df,                 \* df_orders / existing: the frame the session read
    selected,           \* the row chosen in the select box
    out,                \* the lines to_csv is writing
    off,                \* how many of them it has written to the file
    result,             \* how the run ended, what it showed to the user
    agg,                \* the per-item table and the grand total shown
    before,             \* history: the file when the operation started
    atWrite,            \* history: the file when to_csv opened it
    closed,             \* history: the session that closed the file last
    sent,               \* history: the number of rows of each submission
    ndeleted            \* history: the number of rows dropped so far

draftVars == <<widgets, name, order_quantities, lastSet>>

sessionVars == <<pc, op, rows, df, selected, out, off, result, agg>>

historyVars == <<before, atWrite, closed, sent, ndeleted>>

ledgerVars == <<file, now, sessionVars, historyVars>>

vars == <<draftVars, ledgerVars>>

\* The distinct (item, price) keys of the menu.
Keys == {[item |-> QtyInputs[n].item, price |-> QtyInputs[n].price] :
            n \in 1..NumInputs}

KeyOf(n) == [item |-> QtyInputs[n].item, price |-> QtyInputs[n].price]

NoAgg == [perItem |-> <<>>, totale_complessivo |-> 0]

NoFile == [exists |-> FALSE, lines |-> <<>>]

\* The state when the app has just been deployed: no orders file, no
\* quantity set, every session waiting for a click.
Init ==
    /\ widgets = [s \in Sessions |-> [n \in 1..NumInputs |-> 0]]
    /\ name = [s \in Sessions |-> <<>>]
    /\ order_quantities = [s \in Sessions |-> <<>>]
    /\ lastSet = [k \in Keys |-> 0]
    /\ file = NoFile
    /\ now = 0
    /\ pc = [s \in Sessions |-> "idle"]
    /\ op = [s \in Sessions |-> "none"]
    /\ rows = [s \in Sessions |-> <<>>]
    /\ df = [s \in Sessions |-> <<>>]
    /\ selected = [s \in Sessions |-> -1]
    /\ out = [s \in Sessions |-> <<>>]
    /\ off = [s \in Sessions |-> 0]
    /\ result = [s \in Sessions |-> "none"]
    /\ agg = [s \in Sessions |-> NoAgg]
    /\ before = [s \in Sessions |-> NoFile]
    /\ atWrite = [s \in Sessions |-> NoFile]
    /\ closed = 0
    /\ sent = <<>>
    /\ ndeleted = 0

\* ------------------------------------------------------------------ draft

\* The user of session s sets quantity input n to q; the run of main() that
\* follows rebuilds the draft from all inputs.
SetQuantity(s, n, q) ==
    /\ pc[s] = "idle"
    /\ widgets[s][n] # q
    /\ widgets' = [widgets EXCEPT ![s][n] = q]
    /\ order_quantities' = [order_quantities EXCEPT ![s] = BuildDraft(widgets'[s])]
    /\ lastSet' = [lastSet EXCEPT ![KeyOf(n)] = q]
    /\ UNCHANGED <<name, ledgerVars>>

\* One user editing a draft.
NextDraft ==
    \E s \in {1}, n \in 1..NumInputs, q \in 0..MaxQty : SetQuantity(s, n, q)

SpecDraft == Init /\ [][NextDraft]_vars

\* --------------------------------------------------------------- sessions

\* A session starts a run of main(): what the last run showed is dropped.
Fresh(s, what) ==
    /\ pc[s] = "idle"
    /\ op' = [op EXCEPT ![s] = what]
    /\ before' = [before EXCEPT ![s] = file]
    /\ atWrite' = [atWrite EXCEPT ![s] = NoFile]
    /\ off' = [off EXCEPT ![s] = 0]
    /\ agg' = [agg EXCEPT ![s] = NoAgg]
    /\ selected' = [selected EXCEPT ![s] = -1]
    /\ df' = [df EXCEPT ![s] = <<>>]

\* The run ends without a write.
Ends(s, how) ==
    /\ pc' = [pc EXCEPT ![s] = "idle"]
    /\ result' = [result EXCEPT ![s] = how]

\* "Invia ordine" is clicked with text in the name input and form in the
\* quantity inputs: the draft is built, then the checks of main(), then
\* save_order_to_csv up to its test of os.path.exists.
SubmitClick(s, text, form) ==
    LET draft   == BuildDraft(form)
        new_df  == NewRows(Strip(text), draft, now)
    IN
    /\ Fresh(s, "submit")
    /\ widgets' = [widgets EXCEPT ![s] = form]
    /\ name' = [name EXCEPT ![s] = text]
    /\ order_quantities' = [order_quantities EXCEPT ![s] = draft]
    /\ UNCHANGED <<lastSet, file, out, closed, ndeleted>>
    /\ IF Strip(text) = <<>>
       THEN /\ Ends(s, "warning: name")
            /\ rows' = [rows EXCEPT ![s] = <<>>]
            /\ UNCHANGED <<now, sent>>
       ELSE IF draft = <<>>
       THEN /\ Ends(s, "warning: no product")
            /\ rows' = [rows EXCEPT ![s] = <<>>]
            /\ UNCHANGED <<now, sent>>
       ELSE /\ now < MaxSubmits
            /\ now' = now + 1
            /\ sent' = Append(sent, Len(new_df))
            /\ rows' = [rows EXCEPT ![s] = new_df]
            /\ IF new_df = <<>> THEN Ends(s, "success")
               ELSE /\ pc' = [pc EXCEPT ![s] = IF file.exists THEN "read" ELSE "new"]
                    /\ result' = [result EXCEPT ![s] = "running"]

\* The file did not exist: new_df.to_csv(ORDERS_FILE, index=False) is next.
SaveNew(s) ==
    /\ pc[s] = "new"
    /\ pc' = [pc EXCEPT ![s] = "open"]
    /\ out' = [out EXCEPT ![s] = ToCsv(rows[s])]
    /\ UNCHANGED <<draftVars, file, now, op, rows, df, selected, off, result,
                   agg, historyVars>>

\* existing = pd.read_csv(ORDERS_FILE); combined = pd.concat(...).  An
\* exception of read_csv is not caught: the run ends with it.
SaveRead(s) ==
    /\ pc[s] = "read"
    /\ \E r \in read_csv(file.lines) :
          /\ df' = [df EXCEPT ![s] = r.rows]
          /\ CASE r.status = "raise" ->
                    /\ Ends(s, "exception")
                    /\ UNCHANGED out
               [] r.status = "ok" ->
                    /\ pc' = [pc EXCEPT ![s] = "open"]
                    /\ out' = [out EXCEPT ![s] = ToCsv(Concat(r.rows, rows[s]))]
                    /\ UNCHANGED result
               [] OTHER ->
                    /\ pc' = [pc EXCEPT ![s] = "open"]
                    /\ out' = [out EXCEPT ![s] = Garbage]
                    /\ UNCHANGED result
    /\ UNCHANGED <<draftVars, file, now, op, rows, selected, off, agg,
                   historyVars>>

\* to_csv opens ORDERS_FILE for writing: the file is created or emptied.
Open(s) ==
    /\ pc[s] = "open"
    /\ pc' = [pc EXCEPT ![s] = "write"]
    /\ atWrite' = [atWrite EXCEPT ![s] = file]
    /\ file' = [exists |-> TRUE, lines |-> <<>>]
    /\ UNCHANGED <<draftVars, now, op, rows, df, selected, out, off, result,
                   agg, before, closed, sent, ndeleted>>

\* to_csv flushes the next lines of its buffer to the file; after the last
\* ones it closes the file and the run shows its message.
Write(s) ==
    LET end   == IF off[s] + BufferLines < Len(out[s])
                 THEN off[s] + BufferLines ELSE Len(out[s])
        chunk == SubSeq(out[s], off[s] + 1, end)
    IN
    /\ pc[s] = "write"
    /\ file' = [file EXCEPT !.lines = WriteAt(@, off[s], chunk)]
    /\ off' = [off EXCEPT ![s] = end]
    /\ IF end = Len(out[s])
       THEN /\ Ends(s, IF op[s] = "delete" THEN "deleted" ELSE "success")
            /\ closed' = s
       ELSE UNCHANGED <<pc, result, closed>>
    /\ UNCHANGED <<draftVars, now, op, rows, df, selected, out, agg, before,
                   atWrite, sent, ndeleted>>

\* "Mostra riepilogo ordini" is clicked: load_orders_dataframe(), then the
\* test for no orders.  A frame that has not the ledger's columns stops the
\* run at row['name'] of format_option.
ViewClick(s) ==
    /\ pc[s] = "idle"
    /\ op' = [op EXCEPT ![s] = "view"]
    /\ before' = [before EXCEPT ![s] = file]
    /\ atWrite' = [atWrite EXCEPT ![s] = NoFile]
    /\ off' = [off EXCEPT ![s] = 0]
    /\ agg' = [agg EXCEPT ![s] = NoAgg]
    /\ \E r \in load_orders_dataframe(file) :
          /\ df' = [df EXCEPT ![s] = r.rows]
          /\ IF r.status = "garbled" THEN Ends(s, "exception")
             ELSE IF r.status = "None" \/ r.rows = <<>> THEN Ends(s, "info")
             ELSE /\ pc' = [pc EXCEPT ![s] = "loaded"]
                  /\ result' = [result EXCEPT ![s] = "running"]
    /\ selected' = [selected EXCEPT ![s] = -1]
    /\ UNCHANGED <<draftVars, file, now, rows, out, closed, sent, ndeleted>>

\* The select box holds "Nessuno": the per-item table and the grand total
\* are shown.
Summary(s) ==
    /\ pc[s] = "loaded"
    /\ agg' = [agg EXCEPT ![s] =
                  [perItem |-> Aggregate(df[s]),
                   totale_complessivo |-> SumTotale(Aggregate(df[s]))]]
    /\ Ends(s, "summary")
    /\ UNCHANGED <<draftVars, file, now, op, rows, df, selected, out, off,
                   historyVars>>

\* The select box holds row i of the frame just loaded and "Elimina ordine
\* selezionato" is pressed: the row is dropped, to_csv follows.
Delete(s, i) ==
    LET dropped == Drop(df[s], i) IN
    /\ pc[s] = "loaded"
    /\ selected' = [selected EXCEPT ![s] = i]
    /\ op' = [op EXCEPT ![s] = "delete"]
    /\ IF dropped.err
       THEN /\ Ends(s, "exception")
            /\ UNCHANGED out
       ELSE /\ pc' = [pc EXCEPT ![s] = "open"]
            /\ out' = [out EXCEPT ![s] = ToCsv(dropped.rows)]
            /\ UNCHANGED result
    /\ ndeleted' = IF dropped.err THEN ndeleted ELSE ndeleted + 1
    /\ UNCHANGED <<draftVars, file, now, rows, df, off, agg, before, atWrite,
                   closed, sent>>

\* The options of the select box besides "Nessuno": df_orders.index.
Indices(s) == 0..(Len(df[s]) - 1)

\* ----------------------------------------------------------------- inputs

\* Texts typed into the name input.
Anna == <<"A", "n", "n", "a">>

Mario == <<" ", "M", "a", "r", "i", "o", " ">>

Blank == <<" ", " ">>

Initials == <<"N", "A">>

Badge == <<"0", "7">>

\* Contents of the quantity inputs at a click on "Invia ordine".
NothingChosen == <<0, 0, 0, 0, 0>>

OneCappuccino == <<0, 0, 1, 0, 0>>

CappuccinoAndPancakes == <<0, 0, 2, 1, 0>>

TwoPistacchio == <<0, 1, 0, 0, 1>>

NameInputs == {Blank, Mario, Initials, Badge}

FormInputs == {NothingChosen, OneCappuccino, TwoPistacchio}

\* ----------------------------------------------------- one user at a time

\* One session, every click handled to its end before the next one.
Next ==
    \E s \in {1} :
        \/ \E text \in NameInputs, form \in FormInputs :
               SubmitClick(s, text, form)
        \/ SaveNew(s)
        \/ SaveRead(s)
        \/ Open(s)
        \/ Write(s)
        \/ ViewClick(s)
        \/ Summary(s)
        \/ \E i \in Indices(s) : Delete(s, i)

Spec == Init /\ [][Next]_vars

\* -------------------------------------------------- sessions side by side

\* A customer (session 1) who submits orders and the organiser (session 2)
\* who submits an order, views the orders and deletes rows, their steps
\* interleaved in any order.
NextShared ==
    \/ \E form \in {OneCappuccino, CappuccinoAndPancakes} :
           SubmitClick(1, Anna, form)
    \/ SubmitClick(2, Mario, OneCappuccino)
    \/ ViewClick(2)
    \/ Summary(2)
    \/ \E i \in Indices(2) : Delete(2, i)
    \/ \E s \in Sessions : SaveNew(s)
    \/ \E s \in Sessions : SaveRead(s)
    \/ \E s \in Sessions : Open(s)
    \/ \E s \in Sessions : Write(s)

SpecShared == Init /\ [][NextShared]_vars

\* ------------------------------------------- one session, run after run

\* Streamlit runs main() from the top after every interaction with a
\* widget.  st.button returns True only in the run its own click started,
\* and a widget that a run does not reach loses its value.

\* A run in which neither button reads True: the form and the summary of
\* the draft are drawn, nothing of the two button branches.
FormOnly(s) ==
    /\ pc' = [pc EXCEPT ![s] = "idle"]
    /\ result' = [result EXCEPT ![s] = "form"]
    /\ selected' = [selected EXCEPT ![s] = -1]
    /\ df' = [df EXCEPT ![s] = <<>>]
    /\ agg' = [agg EXCEPT ![s] = NoAgg]

\* Quantity input n is set to q, and main() runs.
EditQuantity(s, n, q) ==
    /\ pc[s] = "idle"
    /\ widgets[s][n] # q
    /\ widgets' = [widgets EXCEPT ![s][n] = q]
    /\ order_quantities' = [order_quantities EXCEPT ![s] = BuildDraft(widgets'[s])]
    /\ lastSet' = [lastSet EXCEPT ![KeyOf(n)] = q]
    /\ op' = [op EXCEPT ![s] = "edit"]
    /\ FormOnly(s)
    /\ UNCHANGED <<name, file, now, rows, out, off, historyVars>>

\* The name input is set to text, and main() runs.
EditName(s, text) ==
    /\ pc[s] = "idle"
    /\ name[s] # text
    /\ name' = [name EXCEPT ![s] = text]
    /\ op' = [op EXCEPT ![s] = "edit"]
    /\ FormOnly(s)
    /\ UNCHANGED <<widgets, order_quantities, lastSet, file, now, rows, out,
                   off, historyVars>>

\* "Invia ordine" is pressed: main() runs with the inputs as they stand.
PressSubmit(s) == SubmitClick(s, name[s], widgets[s])

\* A row of the select box that the run of "Mostra riepilogo ordini" drew
\* is chosen: the browser sends the value and a run of main() is due.
SelectRow(s, i) ==
    /\ pc[s] = "idle"
    /\ op[s] = "view"
    /\ result[s] = "summary"
    /\ i \in Indices(s)
    /\ pc' = [pc EXCEPT ![s] = "rerun"]
    /\ op' = [op EXCEPT ![s] = "select"]
    /\ selected' = [selected EXCEPT ![s] = i]
    /\ UNCHANGED <<draftVars, file, now, rows, df, out, off, result, agg,
                   historyVars>>

\* The run that follows the choice: st.button("Mostra riepilogo ordini")
\* reads False, so the select box and the delete button are not reached and
\* the chosen value is dropped.
Rerun(s) ==
    /\ pc[s] = "rerun"
    /\ FormOnly(s)
    /\ UNCHANGED <<draftVars, file, now, op, rows, out, off, historyVars>>

\* The quantity inputs the user of this specification works with:
\* Cappuccino, and Pancakes Nutella e Banana under "Dolci - pancakes".
EditedInputs ==
    {n \in 1..NumInputs :
        \/ QtyInputs[n].category = "Caffetteria"
        \/ /\ QtyInputs[n].category = "Dolci - pancakes"
           /\ QtyInputs[n].item = "Pancakes Nutella e Banana"}

NextRerun ==
    \E s \in {1} :
        \/ \E n \in EditedInputs, q \in 0..MaxQty : EditQuantity(s, n, q)
        \/ \E text \in {Anna, Blank} : EditName(s, text)
        \/ PressSubmit(s)
        \/ SaveNew(s)
        \/ SaveRead(s)
        \/ Open(s)
        \/ Write(s)
        \/ ViewClick(s)
        \/ Summary(s)
        \/ \E i \in Indices(s) : SelectRow(s, i)
        \/ Rerun(s)

\* A run of main() that has started goes on to its end; nothing makes the
\* user click.
RunsFinish ==
    /\ WF_vars(SaveNew(1))
    /\ WF_vars(SaveRead(1))
    /\ WF_vars(Open(1))
    /\ WF_vars(Write(1))
    /\ WF_vars(Summary(1))
    /\ WF_vars(Rerun(1))

SpecRerun == Init /\ [][NextRerun]_vars /\ RunsFinish

\* ======================================================== claims checked

\* The rows of a frame as they are shown to the user.
ShownRows(r) == [i \in 1..Len(r) |-> [r[i] EXCEPT !.name = Shown(@)]]

\* The ledger as a reader gets it: the rows of load_orders_dataframe as
\* shown, none when it returns None.
LoadAll(f) ==
    IF f.exists /\ IsTable(f.lines) THEN ShownRows(ParseRows(f.lines)) ELSE <<>>

RECURSIVE SumQty(_, _)
SumQty(r, S) ==
    IF S = {} THEN 0
    ELSE LET i == CHOOSE i \in S : TRUE IN r[i].quantity + SumQty(r, S \ {i})

RECURSIVE SumLineTotal(_, _)
SumLineTotal(r, S) ==
    IF S = {} THEN 0
    ELSE LET i == CHOOSE i \in S : TRUE
         IN r[i].line_total + SumLineTotal(r, S \ {i})

RowsOfItem(r, x) == {i \in 1..Len(r) : r[i].item = x}

ItemsOf(r) == {r[i].item : i \in 1..Len(r)}

\* ------------------------------------------------------------------- C10

InputsOf(k) == {n \in 1..NumInputs : KeyOf(n) = k}

RECURSIVE SumInputs(_, _)
SumInputs(w, S) ==
    IF S = {} THEN 0
    ELSE LET n == CHOOSE n \in S : TRUE IN w[n] + SumInputs(w, S \ {n})

Smallest(S) == CHOOSE n \in S : \A m \in S : n <= m

EntryKey(e) == [item |-> e.item, price |-> e.price]

\* The keys of the menu in declaration order, each at its first listing.
RECURSIVE DeclaredFrom(_)
DeclaredFrom(n) ==
    IF n > NumInputs THEN <<>>
    ELSE (IF \E m \in 1..(n - 1) : KeyOf(m) = KeyOf(n) THEN <<>>
          ELSE <<KeyOf(n)>>)
         \o DeclaredFrom(n + 1)

RECURSIVE LastSetFrom(_, _)
LastSetFrom(keys, k) ==
    IF k > Len(keys) THEN <<>>
    ELSE (IF lastSet[keys[k]] > 0
          THEN << [item |-> keys[k].item, price |-> keys[k].price,
                   qty |-> lastSet[keys[k]]] >>
          ELSE <<>>)
         \o LastSetFrom(keys, k + 1)

\* C10 as stated: after any sequence of quantity settings the draft holds
\* exactly the keys last set to a quantity > 0, each with that quantity, in
\* the declaration order of the menu, and it is empty iff no key was last set
\* to a quantity > 0.
C10_LastSetQuantities ==
    /\ order_quantities[1] = LastSetFrom(DeclaredFrom(1), 1)
    /\ (order_quantities[1] = <<>>) <=> (\A k \in Keys : lastSet[k] = 0)

\* C10 as amended: after any sequence of quantity settings the draft holds
\* exactly the keys that have a quantity input above 0, once each, with the
\* sum of the quantities of all inputs that list the key, in the order of the
\* first input above 0 of each key; it is empty iff no input is above 0.
C10_SumOfInputs ==
    LET d == order_quantities[1]
        w == widgets[1]
        set(k) == {n \in InputsOf(k) : w[n] > 0}
    IN
    /\ {EntryKey(d[i]) : i \in 1..Len(d)} = {k \in Keys : set(k) # {}}
    /\ \A i, j \in 1..Len(d) : i < j =>
           /\ EntryKey(d[i]) # EntryKey(d[j])
           /\ Smallest(set(EntryKey(d[i]))) < Smallest(set(EntryKey(d[j])))
    /\ \A i \in 1..Len(d) :
           /\ d[i].qty = SumInputs(w, InputsOf(EntryKey(d[i])))
           /\ d[i].qty > 0
    /\ (d = <<>>) <=> (\A n \in 1..NumInputs : w[n] = 0)

\* Both inputs of "Pancakes Nutella e Banana" at 7.00 are above 0, and so is
\* the input of Cappuccino listed between them: the draft holds the
\* pancakes once, with the sum, before the Cappuccino.
C10_Witness ==
    LET d == order_quantities[1]
        w == widgets[1]
    IN
    /\ w[1] > 0 /\ w[3] > 0 /\ w[4] > 0
    /\ Len(d) = 2
    /\ d[1].item = "Pancakes Nutella e Banana" /\ d[1].qty = w[1] + w[4]
    /\ d[2].item = "Cappuccino"

\* -------------------------------------------------------------------- C9

NameRank(x) == CHOOSE k \in 1..Len(SortedItems) : SortedItems[k] = x

Buckets(p, r) ==
    /\ {p[k].item : k \in 1..Len(p)} = ItemsOf(r)
    /\ Len(p) = Cardinality(ItemsOf(r))
    /\ \A k \in 1..Len(p) :
           /\ p[k].quantita = SumQty(r, RowsOfItem(r, p[k].item))
           /\ p[k].totale = SumLineTotal(r, RowsOfItem(r, p[k].item))

\* C9 as stated: the summary shown for the loaded rows has one bucket per
\* distinct item name, in the order in which the items are first seen in
\* the rows, with the summed quantities and the summed stored line totals,
\* and a grand total that is the sum of all line totals.
C9_FirstSeenOrder ==
    \A s \in Sessions : result[s] = "summary" =>
        LET p == agg[s].perItem
            r == df[s]
        IN
        /\ Buckets(p, r)
        /\ agg[s].totale_complessivo = SumLineTotal(r, 1..Len(r))
        /\ \A j, k \in 1..Len(p) : j < k =>
               Smallest(RowsOfItem(r, p[j].item))
                   < Smallest(RowsOfItem(r, p[k].item))

\* C9 as amended: the summary shown for the loaded rows has one bucket per
\* distinct item name, in ascending order of the item names, with the summed
\* quantities and the summed stored line totals, and a grand total that is
\* the sum of all line totals.
C9_SortedByName ==
    \A s \in Sessions : result[s] = "summary" =>
        LET p == agg[s].perItem
            r == df[s]
        IN
        /\ Buckets(p, r)
        /\ agg[s].totale_complessivo = SumLineTotal(r, 1..Len(r))
        /\ \A j, k \in 1..Len(p) : j < k =>
               NameRank(p[j].item) < NameRank(p[k].item)

\* A summary of rows whose first item is not the first by name, with two
\* rows of one item at two prices in one bucket.
C9_Witness ==
    \E s \in Sessions :
        /\ result[s] = "summary"
        /\ Len(agg[s].perItem) = 2
        /\ df[s][1].item # agg[s].perItem[1].item
        /\ \E i, j \in 1..Len(df[s]) :
               /\ df[s][i].item = df[s][j].item
               /\ df[s][i].price # df[s][j].price

\* -------------------------------------------------------------------- C6

IsBlank(t) == \A i \in 1..Len(t) : t[i] = " "

\* C6: a submit whose name is empty or white space only ends with the
\* warning about the name, whatever the draft, and leaves the file as it
\* was: same lines, and no file if there was none.
C6_BlankNameRejected ==
    \A s \in Sessions : (op[s] = "submit" /\ IsBlank(name[s])) =>
        /\ pc[s] = "idle"
        /\ result[s] = "warning: name"
        /\ file = before[s]

\* A blank name was submitted with products chosen while the ledger held
\* orders.
C6_Witness ==
    \E s \in Sessions :
        /\ op[s] = "submit" /\ IsBlank(name[s]) /\ name[s] # <<>>
        /\ order_quantities[s] # <<>>
        /\ LoadAll(file) # <<>>
        /\ result[s] = "warning: name"

\* -------------------------------------------------------------------- C1

\* C1: after a submit that succeeded, the ledger read back is the ledger read
\* before it, unchanged and in the same order, followed by one record per
\* line of the draft summary, in that order, each with the trimmed name, the
\* item, the unit price, the quantity and the line total of that line.
C1_RoundTrip ==
    \A s \in Sessions : (op[s] = "submit" /\ result[s] = "success") =>
        LET L     == LoadAll(before[s])
            after == LoadAll(file)
            lines == SummaryLines(order_quantities[s])
        IN
        /\ Len(after) = Len(L) + Len(lines)
        /\ SubSeq(after, 1, Len(L)) = L
        /\ \A i \in 1..Len(lines) :
               LET r == after[Len(L) + i] IN
               /\ r.name = Strip(name[s])
               /\ r.item = lines[i].item
               /\ r.price = lines[i].price
               /\ r.quantity = lines[i].quantity
               /\ r.line_total = lines[i].line_total

\* -------------------------------------------------------------------- C2

RemoveAt(L, i) == [k \in 1..(Len(L) - 1) |-> IF k <= i THEN L[k] ELSE L[k + 1]]

\* C2: after a delete of row i of the rows just loaded, the ledger read back
\* is one record shorter and is the ledger read before with the record at
\* position i removed, every other record unchanged and in place; and a
\* position at or beyond the number of loaded rows makes the drop fail
\* before anything is written.
C2_DeleteAt ==
    \A s \in Sessions :
        /\ (op[s] = "delete" /\ result[s] = "deleted") =>
               LET L == LoadAll(before[s]) IN
               /\ selected[s] \in 0..(Len(L) - 1)
               /\ Len(LoadAll(file)) = Len(L) - 1
               /\ LoadAll(file) = RemoveAt(L, selected[s])
        /\ pc[s] = "loaded" =>
               \A i \in Len(df[s])..(Len(df[s]) + 1) : Drop(df[s], i).err

\* -------------------------------------------------------------------- C7

\* A customer name as the ledger's records are meant to hold it: text that
\* is not empty and has no white space at its ends, not a missing value.
IsCustomerName(v) == v.t # "nan" /\ Shown(v) # <<>> /\ Strip(Shown(v)) = Shown(v)

StoredRows(f) == IF f.exists /\ IsTable(f.lines) THEN ParseRows(f.lines) ELSE <<>>

\* C7: a submit of a draft without an entry of quantity > 0 leaves the file
\* as it was (none created, nothing written), and every record of the
\* ledger has a quantity of at least 1 and a customer name that is not
\* empty and is trimmed.
C7_NoEmptyBatchValidRecords ==
    /\ \A s \in Sessions :
           (op[s] = "submit" /\ SummaryLines(order_quantities[s]) = <<>>) =>
               (pc[s] = "idle" /\ file = before[s])
    /\ \A i \in 1..Len(StoredRows(file)) :
           /\ StoredRows(file)[i].quantity >= 1
           /\ IsCustomerName(StoredRows(file)[i].name)

\* -------------------------------------------------------------------- C8

\* C8: a view of a file that exists but cannot be read shows the message
\* for an empty ledger, and a submit with a name and products never ends
\* with an exception.
C8_UnreadableStoreTolerated ==
    \A s \in Sessions :
        /\ (op[s] = "view" /\ before[s].exists /\ before[s].lines = <<>>) =>
               result[s] = "info"
        /\ op[s] = "submit" => result[s] # "exception"

\* -------------------------------------------------------------------- C3

\* C3: a delete that writes has checked its position against the ledger as
\* it is when the write begins: the position is within that ledger, and the
\* lines it writes keep every record of that ledger other than the one the
\* organiser selected.
C3_DeleteRevalidates ==
    \A s \in Sessions :
        (op[s] = "delete" /\ atWrite[s].exists) =>
            LET cur    == LoadAll(atWrite[s])
                chosen == ShownRows(df[s])[selected[s] + 1]
                kept   == ShownRows(ParseRows(out[s]))
            IN
            /\ selected[s] < Len(cur)
            /\ \A i \in 1..Len(cur) :
                   cur[i] # chosen => \E k \in 1..Len(kept) : kept[k] = cur[i]

\* -------------------------------------------------------------------- C4

RowsAt(r, t) == {i \in 1..Len(r) : r[i].timestamp = t}

\* C4: as long as no row has been deleted, the rows a session has loaded
\* hold, of every submission, all its rows or none.
C4_AllOrNothing ==
    \A s \in Sessions :
        (op[s] = "view" /\ ndeleted = 0) =>
            \A t \in 1..Len(sent) :
                Cardinality(RowsAt(df[s], t - 1)) \in {0, sent[t]}

\* -------------------------------------------------------------------- C5

\* C5: whenever no session is writing, the file holds exactly the lines of
\* the session that closed it last: the frame that session read with its
\* own change applied, and no line of another session's write.
C5_LastWriterWins ==
    ((\A s \in Sessions : pc[s] \notin {"open", "write"}) /\ closed # 0) =>
        file.lines = out[closed]


\* ------------------------------------------------------------------- C11

\* C11: once the organiser has chosen row i in the select box of the orders
\* just loaded, the row's deletion follows: the store comes to hold the
\* loaded rows without row i and the run reports the deletion.
C11_SelectedRowDeleted ==
    \A i \in 0..(2 * MaxSubmits - 1) :
        (pc[1] = "rerun" /\ selected[1] = i) ~>
            /\ op[1] = "delete"
            /\ result[1] = "deleted"
            /\ LoadAll(file) = RemoveAt(LoadAll(before[1]), i)

\* ------------------------------------------------------------------- C12

\* C12: when "Invia ordine" is pressed again right after a successful
\* submission, with no input touched in between, the run finds an empty
\* draft and save_order_to_csv has no row to append.
C12_ResubmitAppendsNothing ==
    [][(/\ pc[1] = "idle"
        /\ op[1] = "submit"
        /\ result[1] = "success"
        /\ op'[1] = "submit"
        /\ widgets' = widgets
        /\ name' = name
        /\ before'[1] = file)
       => (/\ order_quantities'[1] = <<>>
           /\ rows'[1] = <<>>
           /\ sent' = sent
           /\ pc'[1] = "idle")]_vars

=============================================================================
